---- MODULE Spec2Model ----
(***************************************************************************)
(* Model of main/secrets_example.h: the WiFi credentials template, the     *)
(* copy-rename-edit-save workflow its header comment documents, the        *)
(* preprocessing and compilation of a translation unit that includes the   *)
(* template and/or its copy secrets.h, and the stores the declared types   *)
(* of ssid and password allow a consuming program to make.                 *)
(***************************************************************************)
EXTENDS Naturals, Sequences, FiniteSets

VARIABLES disk, buffer, typed, phase, tu, unit, image, ram

vars == <<disk, buffer, typed, phase, tu, unit, image, ram>>

\* ------------------------------------------------------------------ bounds

\* Longest text a developer types over a placeholder.
MaxLen == 2

\* Most #include directives in one translation unit.
MaxIncludes == 2

\* --------------------------------------------------------------- characters

DQ == "\""

BS == "\\"

\* A text is a sequence of elements: a double quote, a backslash, or an
\* ordinary character or run of ordinary characters (letters, digits, "_",
\* "!").  The developer types the ordinary character a, double quotes and
\* backslashes.
Alphabet == {"a", DQ, BS}

RECURSIVE SeqsUpTo(_, _)
SeqsUpTo(S, n) ==
  IF n = 0 THEN {<<>>}
  ELSE LET shorter == SeqsUpTo(S, n - 1)
       IN  shorter \cup {Append(t, c) : t \in {u \in shorter : Len(u) = n - 1}, c \in S}

HomeNet == <<"HomeNet">>

S3cr3t == <<"s3cr3t!">>

\* What may be typed in place of a placeholder.
TypedTexts == SeqsUpTo(Alphabet, MaxLen) \cup {HomeNet, S3cr3t}

\* ------------------------------------------------------------ file contents

YOUR_WIFI_SSID == <<"YOUR_WIFI_SSID">>

YOUR_WIFI_PASSWORD == <<"YOUR_WIFI_PASSWORD">>

\* One line of a header.  A declaration line is
\*   <type> <name> = "<text>";
\* where text is the raw characters between the outer quotes.
Line(kind, name, type, text) == [kind |-> kind, name |-> name, type |-> type, text |-> text]

\* The declared type of both variables.
ConstCharPtr == "const char*"

NoType == ""

SECRETS_H == "SECRETS_H"

\* The template as committed.
Template ==
  << Line("comment", "INSTRUCTIONS", NoType, <<>>),
     Line("ifndef", SECRETS_H, NoType, <<>>),
     Line("define", SECRETS_H, NoType, <<>>),
     Line("decl", "ssid", ConstCharPtr, YOUR_WIFI_SSID),
     Line("decl", "password", ConstCharPtr, YOUR_WIFI_PASSWORD),
     Line("endif", "", NoType, <<>>) >>

TemplateFile == "secrets_example.h"

CopyFile == "secrets_example - Copy.h"

SecretsFile == "secrets.h"

FileNames == {TemplateFile, CopyFile, SecretsFile}

\* No such file / no open buffer.
Absent == <<>>

\* ----------------------------------------------------------------- workflow

\* The placeholder the instructions tell the developer to replace in the
\* declaration of each name.
Placeholder(name) == IF name = "ssid" THEN YOUR_WIFI_SSID ELSE YOUR_WIFI_PASSWORD

\* ReplaceIn gone wrong: the edit also renames the declaration it touches.
ReplaceInRenaming(file, name, text) ==
  [i \in 1..Len(file) |->
     IF file[i].kind = "decl" /\ file[i].name = name /\ file[i].text = Placeholder(name)
     THEN [file[i] EXCEPT !.text = text, !.name = "wifi_" \o name]
     ELSE file[i]]

\* ReplaceIn gone wrong: the text is typed in front of the placeholder,
\* which is not removed.
ReplaceInKeeping(file, name, text) ==
  [i \in 1..Len(file) |->
     IF file[i].kind = "decl" /\ file[i].name = name /\ file[i].text = Placeholder(name)
     THEN [file[i] EXCEPT !.text = text \o Placeholder(name)]
     ELSE file[i]]

\* Replace the placeholder in the declaration of name by the typed text.
ReplaceIn(file, name, text) ==
  [i \in 1..Len(file) |->
     IF file[i].kind = "decl" /\ file[i].name = name /\ file[i].text = Placeholder(name)
     THEN [file[i] EXCEPT !.text = text]
     ELSE file[i]]

HasPlaceholder(file, name) ==
  \E i \in 1..Len(file) :
     file[i].kind = "decl" /\ file[i].name = name /\ file[i].text = Placeholder(name)

\* The file step 1 copies.
CopySource == TemplateFile

\* EditTarget gone wrong: the developer edits the template in place.
EditTargetTemplate == TemplateFile

\* The file steps 2 and 3 edit and step 4 saves.
EditTarget == SecretsFile

\* Step 1, first half: "Copy this file".
Copy ==
  /\ phase = "workflow"
  /\ disk[CopyFile] = Absent
  /\ disk[SecretsFile] = Absent
  /\ disk' = [disk EXCEPT ![CopyFile] = disk[CopySource]]
  /\ UNCHANGED <<buffer, typed, phase, tu, unit, image, ram>>

\* Step 1, second half: "rename it to secrets.h".
Rename ==
  /\ phase = "workflow"
  /\ disk[CopyFile] # Absent
  /\ disk' = [disk EXCEPT ![SecretsFile] = disk[CopyFile], ![CopyFile] = Absent]
  /\ UNCHANGED <<buffer, typed, phase, tu, unit, image, ram>>

\* What the developer has typed for each name so far.
Noted(t, name, text) == [n \in DOMAIN t \cup {name} |-> IF n = name THEN text ELSE t[n]]

\* The text in the editor: the open buffer, or the file as it is on disk.
Opened == IF buffer = Absent THEN disk[EditTarget] ELSE buffer

\* Step 2: "Replace YOUR_WIFI_SSID with your actual WiFi network name".
ReplaceSsid ==
  /\ phase = "workflow"
  /\ disk[EditTarget] # Absent
  /\ HasPlaceholder(Opened, "ssid")
  /\ \E s \in TypedTexts :
       /\ buffer' = ReplaceIn(Opened, "ssid", s)
       /\ typed' = Noted(typed, "ssid", s)
  /\ UNCHANGED <<disk, phase, tu, unit, image, ram>>

\* Step 3: "Replace YOUR_WIFI_PASSWORD with your actual WiFi password".
ReplacePassword ==
  /\ phase = "workflow"
  /\ disk[EditTarget] # Absent
  /\ HasPlaceholder(Opened, "password")
  /\ \E p \in TypedTexts :
       /\ buffer' = ReplaceIn(Opened, "password", p)
       /\ typed' = Noted(typed, "password", p)
  /\ UNCHANGED <<disk, phase, tu, unit, image, ram>>

\* Step 4: "Save the file".
Save ==
  /\ phase = "workflow"
  /\ buffer # Absent
  /\ buffer # disk[EditTarget]
  /\ disk' = [disk EXCEPT ![EditTarget] = buffer]
  /\ UNCHANGED <<buffer, typed, phase, tu, unit, image, ram>>

\* ------------------------------------------------------------- preprocessor

\* The preprocessor's state within one translation unit: the macros defined
\* so far, whether it is inside a failed #ifndef group, and the declaration
\* lines passed on to the compiler.
PPState(macros, skipping, out) == [macros |-> macros, skipping |-> skipping, out |-> out]

\* PPLine gone wrong: #define does not record the guard macro.
PPLineNoDefine(line, st) ==
  CASE line.kind = "ifndef" ->
         IF st.skipping THEN st
         ELSE PPState(st.macros, line.name \in st.macros, st.out)
    [] line.kind = "endif" -> PPState(st.macros, FALSE, st.out)
    [] line.kind = "decl" ->
         IF st.skipping THEN st
         ELSE PPState(st.macros, st.skipping, Append(st.out, line))
    [] OTHER -> st

\* PPLine gone wrong: a later definition of a name replaces the earlier one
\* and the guard is not honoured.
PPLineLastWins(line, st) ==
  CASE line.kind = "define" ->
         PPState(st.macros \cup {line.name}, st.skipping, st.out)
    [] line.kind = "decl" ->
         PPState(st.macros, st.skipping,
                 Append(SelectSeq(st.out, LAMBDA l : l.name # line.name), line))
    [] OTHER -> st

\* One line of a header through the preprocessor.
PPLine(line, st) ==
  CASE line.kind = "ifndef" ->
         IF st.skipping THEN st
         ELSE PPState(st.macros, line.name \in st.macros, st.out)
    [] line.kind = "define" ->
         IF st.skipping THEN st
         ELSE PPState(st.macros \cup {line.name}, st.skipping, st.out)
    [] line.kind = "endif" -> PPState(st.macros, FALSE, st.out)
    [] line.kind = "decl" ->
         IF st.skipping THEN st
         ELSE PPState(st.macros, st.skipping, Append(st.out, line))
    [] OTHER -> st

RECURSIVE PPFile(_, _, _)
PPFile(file, i, st) ==
  IF i > Len(file) THEN st ELSE PPFile(file, i + 1, PPLine(file[i], st))

\* The #include directives of a translation unit, in order; found is FALSE
\* when one names a file that does not exist.
RECURSIVE Preprocess(_, _, _, _)
Preprocess(includes, i, d, st) ==
  IF i > Len(includes) THEN [found |-> TRUE, out |-> st.out]
  ELSE IF d[includes[i]] = Absent THEN [found |-> FALSE, out |-> <<>>]
  ELSE Preprocess(includes, i + 1, d, PPFile(d[includes[i]], 1, st))

PPStart == PPState({}, FALSE, <<>>)

\* ------------------------------------------------------------------ compiler

BEL == "BEL"

LF == "LF"

\* The character an escape sequence \c stands for (an escape the language
\* does not define is read as the character itself).
Escape(c) ==
  CASE c = "a" -> BEL
    [] c = "n" -> LF
    [] OTHER -> c

Malformed == [ok |-> FALSE, value |-> <<>>]

\* The initializer  "<text>";  as the compiler reads it: one or more adjacent
\* string literals, concatenated; chars is the text with its outer quotes.
RECURSIVE LexLiterals(_, _, _, _)
LexLiterals(chars, i, inLit, val) ==
  IF i > Len(chars) THEN (IF inLit THEN Malformed ELSE [ok |-> TRUE, value |-> val])
  ELSE IF ~inLit
       THEN (IF chars[i] = DQ THEN LexLiterals(chars, i + 1, TRUE, val) ELSE Malformed)
  ELSE IF chars[i] = DQ THEN LexLiterals(chars, i + 1, FALSE, val)
  ELSE IF chars[i] = LF THEN Malformed
  ELSE IF chars[i] = BS
       THEN (IF i + 1 > Len(chars) THEN Malformed
             ELSE LexLiterals(chars, i + 2, TRUE, Append(val, Escape(chars[i + 1]))))
  ELSE LexLiterals(chars, i + 1, TRUE, Append(val, chars[i]))

\* Initializer gone wrong: an empty string is rejected.
InitializerNonEmpty(text) ==
  IF text = <<>> THEN Malformed ELSE LexLiterals(<<DQ>> \o text \o <<DQ>>, 1, FALSE, <<>>)

\* The string a declaration line's initializer denotes.
Initializer(text) == LexLiterals(<<DQ>> \o text \o <<DQ>>, 1, FALSE, <<>>)

Definition(line) ==
  [name |-> line.name, type |-> line.type, value |-> Initializer(line.text).value]

Failed == [ok |-> FALSE, defs |-> <<>>]

\* The declarations of a preprocessed translation unit, compiled: fails on a
\* malformed initializer and on a name defined twice.
Compile(decls) ==
  IF \E i \in 1..Len(decls) : ~Initializer(decls[i].text).ok THEN Failed
  ELSE IF \E i, j \in 1..Len(decls) : i < j /\ decls[i].name = decls[j].name THEN Failed
  ELSE [ok |-> TRUE, defs |-> [i \in 1..Len(decls) |-> Definition(decls[i])]]

Names(defs) == [i \in 1..Len(defs) |-> defs[i].name]

Defined(img) == {img.defs[i].name : i \in 1..Len(img.defs)}

DefOf(img, name) == img.defs[CHOOSE i \in 1..Len(img.defs) : img.defs[i].name = name]

\* The translation units a build may compile.
TUs == SeqsUpTo({TemplateFile, SecretsFile}, MaxIncludes) \ {<<>>}

\* Build the firmware from the files as they are on disk and start it.  A
\* build is made with nothing left unsaved in the editor (step 4).
Build ==
  /\ phase = "workflow"
  /\ buffer = Absent \/ buffer = disk[EditTarget]
  /\ \E t \in TUs :
       \E pre \in {Preprocess(t, 1, disk, PPStart)} :
         \E img \in {IF pre.found THEN Compile(pre.out) ELSE Failed} :
           /\ tu' = t
           /\ unit' = pre.out
           /\ image' = img
           /\ phase' = IF img.ok THEN "running" ELSE "failed"
           /\ ram' = [n \in Defined(img) |-> DefOf(img, n).value]
  /\ UNCHANGED <<disk, buffer, typed>>

\* ------------------------------------------------------------------- runtime

\* A string of the consuming program other than the two literals.
OtherString == <<"other">>

\* Whether a store of the given kind to the variable type-checks:
\*   pointer:  name = "other";     pointee:  name[0] = 'o';
StoreCompiles(type, kind) ==
  IF kind = "pointer"
  THEN type \notin {"char* const", "const char* const"}
  ELSE type \notin {"const char*", "const char* const"}

\* A store the consuming program makes to ssid or password.
ConsumerStore ==
  /\ phase = "running"
  /\ \E n \in DOMAIN ram, kind \in {"pointer", "pointee"} :
       /\ StoreCompiles(DefOf(image, n).type, kind)
       /\ ram[n] # OtherString
       /\ ram' = [ram EXCEPT ![n] = OtherString]
  /\ UNCHANGED <<disk, buffer, typed, phase, tu, unit, image>>

Init ==
  /\ disk = [f \in FileNames |-> IF f = TemplateFile THEN Template ELSE Absent]
  /\ buffer = Absent
  /\ typed = <<>>
  /\ phase = "workflow"
  /\ tu = <<>>
  /\ unit = <<>>
  /\ image = [ok |-> FALSE, defs |-> <<>>]
  /\ ram = <<>>

Next ==
  \/ Copy
  \/ Rename
  \/ ReplaceSsid
  \/ ReplacePassword
  \/ Save
  \/ Build
  \/ ConsumerStore

Spec == Init /\ [][Next]_vars

\* ==================================================================== claims

\* The declaration lines of a header.
Decls(file) == SelectSeq(file, LAMBDA l : l.kind = "decl")

\* What a header defines when it is compiled on its own.
Alone(file) == Compile(PPFile(file, 1, PPStart).out)

\* The declaration line of name in a header.
DeclLine(file, name) == Decls(file)[CHOOSE i \in 1..Len(Decls(file)) : Decls(file)[i].name = name]

\* A text with no double quote and no backslash (no line break can be typed
\* here at all).
Plain(text) == \A i \in 1..Len(text) : text[i] \notin {DQ, BS, LF}

PlainTexts(file) == \A i \in 1..Len(Decls(file)) : Plain(Decls(file)[i].text)

\* The header defines exactly the two string constants ssid and password.
DefinesSsidAndPassword(file) ==
  /\ Alone(file).ok
  /\ Names(Alone(file).defs) = <<"ssid", "password">>
  /\ \A i \in 1..Len(Alone(file).defs) : Alone(file).defs[i].type = ConstCharPtr

Built == phase # "workflow"

Includes(t) == {t[i] : i \in 1..Len(t)}

AllFound == \A f \in Includes(tu) : disk[f] # Absent

ReadBack ==
  /\ image.ok
  /\ Defined(image) = {"ssid", "password"}
  /\ DefOf(image, "ssid").value = typed["ssid"]
  /\ DefOf(image, "password").value = typed["password"]

\* A build of secrets.h alone, after both placeholders were replaced by
\* non-empty texts and the file saved.
RoundTripCase ==
  /\ Built
  /\ Includes(tu) = {SecretsFile}
  /\ DOMAIN typed = {"ssid", "password"}
  /\ typed["ssid"] # <<>> /\ typed["password"] # <<>>

\* C2 as stated: any two non-empty strings substituted for the placeholders
\* are read back by a build of secrets.h exactly, unmodified and not swapped.
C2_RoundTripAny == RoundTripCase => ReadBack

\* C2 amended: two non-empty strings with no double quote, backslash or line
\* break, substituted for the placeholders, are read back by a build of
\* secrets.h exactly, unmodified and not swapped.
C2_RoundTripPlain ==
  (RoundTripCase /\ Plain(typed["ssid"]) /\ Plain(typed["password"])) => ReadBack

C2_Witness ==
  /\ RoundTripCase
  /\ typed["ssid"] = HomeNet /\ typed["password"] = S3cr3t
  /\ ReadBack
  /\ ram["ssid"] = HomeNet /\ ram["password"] = S3cr3t

\* C3: in every reachable state the template file holds the placeholders
\* (it is the committed text); edits and saves reach only secrets.h.
C3_TemplateKeepsPlaceholders ==
  /\ disk[TemplateFile] = Template
  /\ DeclLine(disk[TemplateFile], "ssid").text = YOUR_WIFI_SSID
  /\ DeclLine(disk[TemplateFile], "password").text = YOUR_WIFI_PASSWORD

C3_Witness ==
  /\ disk[SecretsFile] # Absent
  /\ DOMAIN typed = {"ssid", "password"}
  /\ DeclLine(disk[SecretsFile], "ssid").text = typed["ssid"]
  /\ DeclLine(disk[SecretsFile], "password").text = typed["password"]
  /\ disk[TemplateFile] = Template

\* C4 as stated: while the firmware runs, ssid and password denote the
\* strings written in the compiled source file.
C4_NeverMutated ==
  phase = "running" => \A n \in DOMAIN ram : ram[n] = DefOf(image, n).value

\* C5: an empty text typed for a name is accepted and read back as the empty
\* string (the other initializer being one the compiler accepts), and a
\* build of files whose placeholders were never replaced succeeds with the
\* placeholders as values.
C5_NoValidation ==
  /\ (Built /\ Includes(tu) = {SecretsFile}) =>
        \A n \in DOMAIN typed :
           (typed[n] = <<>> /\ PlainTexts(disk[SecretsFile])) =>
              /\ phase = "running"
              /\ DefOf(image, n).value = <<>>
  /\ (Built /\ AllFound /\ typed = <<>>) =>
        /\ phase = "running"
        /\ DefOf(image, "ssid").value = YOUR_WIFI_SSID
        /\ DefOf(image, "password").value = YOUR_WIFI_PASSWORD

C5_Witness ==
  /\ phase = "running"
  /\ Includes(tu) = {SecretsFile}
  /\ DOMAIN typed = {"ssid", "password"}
  /\ typed["ssid"] = <<>> /\ typed["password"] = <<>>
  /\ DefOf(image, "ssid").value = <<>>
  /\ DefOf(image, "password").value = <<>>

\* How many declarations of name reach the compiler.
Count(name) == Cardinality({i \in 1..Len(unit) : unit[i].name = name})

BothIncluded == Built /\ AllFound /\ Includes(tu) = {TemplateFile, SecretsFile}

\* C7 as stated: in a translation unit that includes both files, in any
\* order, the declarations that take effect are those of secrets.h.
C7_SecretsAlwaysWin == BothIncluded => unit = Decls(disk[SecretsFile])

\* C7 amended: in a translation unit that includes both files, the
\* declarations that take effect are those of the file included first:
\* those of secrets.h only when it is included before the template.
C7_FirstIncludeWins ==
  BothIncluded =>
     /\ unit = Decls(disk[tu[1]])
     /\ image = Compile(Decls(disk[tu[1]]))

C7_Witness ==
  /\ BothIncluded
  /\ tu[1] = TemplateFile
  /\ Decls(disk[SecretsFile]) # Decls(Template)
  /\ phase = "running"
  /\ ram["ssid"] = YOUR_WIFI_SSID
  /\ ram["password"] = YOUR_WIFI_PASSWORD

====
